---- MODULE Spec2Model ----
(***************************************************************************)
(* Model of the benchmark launch script (benchmark.py): the accelerator    *)
(* check of the script body, main() (executor selection, backbone load,    *)
(* dispatch of the enabled tasks, the collection loop) and save().         *)
(*                                                                         *)
(* The registry, the task modules and interfaces.BenchmarkReport are not   *)
(* part of the sources at hand; they are modelled from the specification   *)
(* (sections 4.1, 4.2 and 4.4) and marked as such where they are defined.  *)
(***************************************************************************)
EXTENDS Integers, Sequences, FiniteSets, TLC

VARIABLES
    pc,             \* position of the control thread
    error,          \* the exception that left main, "none" while there is none
    args,           \* the module-level name `args` (the Args passed to main)
    cuda_available, \* torch.cuda.is_available() on this host
    start_method,   \* the multiprocessing start method, "unset" until it is set
    executor,       \* the local `executor` of main
    backbone,       \* the local `backbone` of main
    next_task,      \* position in TaskOrder of the next `if args.<task>_run`
    jobs,           \* the local list `jobs` of main: one future per submit
    yielded,        \* indices of the futures as_completed has handed out
    dirs,           \* directories that exist
    files,          \* path -> the lines of the file, in the order written
    now,            \* the last value read from time.time()
    log,            \* records emitted through `logger`, in order
    registry,       \* the process-wide table of the registry: name -> loader
    reg_last        \* the last call made to the registry and how it ended

vars == << pc, error, args, cuda_available, start_method, executor, backbone,
           next_task, jobs, yielded, dirs, files, now, log, registry, reg_last >>

----------------------------------------------------------------------------
(* Bounds *)

\* time.time() is read as a whole number of seconds in 0..MaxClock.
MaxClock == 1

Clock == 0..MaxClock

----------------------------------------------------------------------------
(* Args *)

\* The order of the four `if args.<task>_run` statements of main.
TaskOrder == << "newt", "kabr", "plantnet", "iwildcam" >>

Tasks == { TaskOrder[i] : i \in 1..Len(TaskOrder) }

\* The flags as a dispatch would read them whose third `if` was copied from the
\* second and not adapted.
RunFlagCopied(t) ==
    CASE t = "newt" -> "newt_run"
      [] t = "kabr" -> "kabr_run"
      [] t = "plantnet" -> "kabr_run"
      [] t = "iwildcam" -> "iwildcam_run"

\* The name of the run flag of a task in Args.
RunFlag(t) ==
    CASE t = "newt" -> "newt_run"
      [] t = "kabr" -> "kabr_run"
      [] t = "plantnet" -> "plantnet_run"
      [] t = "iwildcam" -> "iwildcam_run"

\* The name of the nested task configuration of a task in Args.
ArgsField(t) ==
    CASE t = "newt" -> "newt_args"
      [] t = "kabr" -> "kabr_args"
      [] t = "plantnet" -> "plantnet_args"
      [] t = "iwildcam" -> "iwildcam_args"

JobKinds == { "slurm", "process", "none" }

Devices == { "cpu", "cuda" }

\* Names registered by the package's built-in registrations.
list_vision_backbones == { "timm-vit", "open-clip" }

\* The default of Args.model_org.
DefaultModelOrg == "open_clip"

\* The default of Args.model_ckpt.
DefaultModelCkpt == "RN50/openai"

\* The default of Args.report_to.
DefaultReportTo == "./reports"

\* The nested configuration of a task as its default factory builds it.
TaskArgs(t) ==
    [ device |-> IF t \in { "newt", "plantnet" } THEN "cuda" ELSE "cpu",
      task |-> t ]

\* The Args records the command line can produce.
ArgsSet ==
    [ jobs : JobKinds,
      model_org : { "open-clip", DefaultModelOrg },
      model_ckpt : { DefaultModelCkpt },
      device : Devices,
      newt_run : BOOLEAN, newt_args : { TaskArgs("newt") },
      kabr_run : BOOLEAN, kabr_args : { TaskArgs("kabr") },
      plantnet_run : BOOLEAN, plantnet_args : { TaskArgs("plantnet") },
      iwildcam_run : BOOLEAN, iwildcam_args : { TaskArgs("iwildcam") },
      report_to : { DefaultReportTo } ]

\* The nested configuration handed on as it is, without the override.
replace_nothing(obj, d) == obj

\* dataclasses.replace(obj, device=d)
replace_device(obj, d) == [ obj EXCEPT !.device = d ]

\* Args(): every field at its default.
DefaultArgs ==
    [ jobs |-> "none",
      model_org |-> DefaultModelOrg,
      model_ckpt |-> DefaultModelCkpt,
      device |-> "cuda",
      newt_run |-> FALSE, newt_args |-> TaskArgs("newt"),
      kabr_run |-> FALSE, kabr_args |-> TaskArgs("kabr"),
      plantnet_run |-> FALSE, plantnet_args |-> TaskArgs("plantnet"),
      iwildcam_run |-> FALSE, iwildcam_args |-> TaskArgs("iwildcam"),
      report_to |-> DefaultReportTo ]

----------------------------------------------------------------------------
(* The backbone registry (section 4.1) *)

\* The names the registry is called with.
BackboneNames == list_vision_backbones \cup { DefaultModelOrg }

\* The loaders of third_party_models that get registered.
Loaders == { "TimmVit", "OpenClip" }

EmptyRegistry == [ n \in {} |-> "none" ]

\* A registration that replaces the loader of a name already registered.
register_overriding(table, name, loader) ==
    [ result |-> "ok", table |-> (name :> loader) @@ table ]

\* register_vision_backbone(name, loader) on the table: the table afterwards
\* and how the call ended.
register_vision_backbone(table, name, loader) ==
    IF name \in DOMAIN table
      THEN [ result |-> "DuplicateRegistrationError", table |-> table ]
      ELSE [ result |-> "ok", table |-> (name :> loader) @@ table ]

\* The table after the two registrations of the package's __init__.
BuiltinRegistry ==
    register_vision_backbone(
        register_vision_backbone(EmptyRegistry, "timm-vit", "TimmVit").table,
        "open-clip", "OpenClip").table

\* load(name, ckpt) on the table: the possible outcomes of the call. An
\* unregistered name fails; a registered loader returns a handle or fails.
load_from(table, name, ckpt) ==
    IF name \notin DOMAIN table
      THEN { [ kind |-> "exception", exc |-> "UnknownBackboneError" ] }
      ELSE { [ kind |-> "result", value |-> [ org |-> name, ckpt |-> ckpt ] ],
             [ kind |-> "exception", exc |-> "BackboneLoadError" ] }

NoCall == [ op |-> "none" ]

----------------------------------------------------------------------------
(* Init *)

\* The local `backbone` of main before it is assigned.
NoBackbone == [ org |-> "none", ckpt |-> "none" ]

\* The files save can name: <report_to>/<posix>.jsonl
Paths == [ dir : { DefaultReportTo }, posix : Clock ]

NoFiles == [ p \in Paths |-> << >> ]

Init ==
    /\ pc = "script"
    /\ error = "none"
    /\ args \in ArgsSet
    /\ cuda_available \in BOOLEAN
    /\ start_method = "unset"
    /\ executor = "none"
    /\ backbone = NoBackbone
    /\ next_task = 1
    /\ jobs = << >>
    /\ yielded = {}
    /\ dirs = {}
    /\ files = NoFiles
    /\ now = 0
    /\ log = << >>
    /\ registry = BuiltinRegistry
    /\ reg_last = NoCall

----------------------------------------------------------------------------
(* The script body *)

\* An accelerator check that warns and picks the start method but calls main
\* with the configuration it was given.
CheckAcceleratorKeepsDevice ==
    /\ pc = "script"
    /\ IF args.device = "cuda" /\ ~cuda_available
         THEN /\ log' = Append(log, [ level |-> "WARNING", msg |-> "No CUDA GPU found" ])
              /\ start_method' = "fork"
         ELSE IF args.device = "cuda" /\ cuda_available
           THEN /\ start_method' = "spawn"
                /\ UNCHANGED log
           ELSE UNCHANGED << log, start_method >>
    /\ pc' = "main"
    /\ UNCHANGED << error, args, cuda_available, executor, backbone, next_task,
                    jobs, yielded, dirs, files, now >>
    /\ UNCHANGED << registry, reg_last >>

\* 0. Check on hardware accelerator, then call main(args).
CheckAccelerator ==
    /\ pc = "script"
    /\ IF args.device = "cuda" /\ ~cuda_available
         THEN /\ log' = Append(log, [ level |-> "WARNING", msg |-> "No CUDA GPU found" ])
              /\ start_method' = "fork"
              /\ args' = replace_device(args, "cpu")
         ELSE IF args.device = "cuda" /\ cuda_available
           THEN /\ start_method' = "spawn"
                /\ UNCHANGED << args, log >>
           ELSE UNCHANGED << args, log, start_method >>
    /\ pc' = "main"
    /\ UNCHANGED << error, cuda_available, executor, backbone, next_task, jobs,
                    yielded, dirs, files, now >>
    /\ UNCHANGED << registry, reg_last >>

----------------------------------------------------------------------------
(* Collaborators that are not part of the sources at hand *)

\* registry.load_vision_backbone(org, ckpt): the possible outcomes of the call.
\* An unregistered name fails; a registered loader returns a handle or fails.
load_vision_backbone(org, ckpt) == load_from(registry, org, ckpt)

\* The name a task gives its report.
ReportName(t) ==
    CASE t = "newt" -> "NeWT"
      [] t = "kabr" -> "KABR"
      [] t = "plantnet" -> "Pl@ntNet"
      [] t = "iwildcam" -> "iWildCam"

\* The example scores a task may put into its report (an empty list is the
\* malformed report of section 4.2).
TaskExamples == { << >>, << 1, 1 >> }

\* <task>.benchmark(model, cfg): the possible outcomes of one task invocation,
\* a raised error or a returned report.
benchmark(t, model, cfg) ==
    { [ kind |-> "exception", exc |-> [ type |-> "TaskError", task |-> t ] ] }
    \cup
    { [ kind |-> "result",
        report |-> [ name |-> ReportName(t), examples |-> ex, splits |-> << >> ] ]
      : ex \in TaskExamples }

RECURSIVE SumSeq(_)
SumSeq(s) == IF s = << >> THEN 0 ELSE Head(s) + SumSeq(Tail(s))

\* BenchmarkReport.get_mean_score(): the mean as the fraction num/den; an
\* empty report gives 0/0 (not a number).
get_mean_score(report) ==
    [ num |-> SumSeq(report.examples), den |-> Len(report.examples) ]

\* The means a resample of the examples (same length, drawn with replacement)
\* can have.
ResampleMeans(examples) ==
    LET n == Len(examples)
        scores == { examples[i] : i \in 1..n }
        lo == CHOOSE x \in scores : \A y \in scores : x <= y
        hi == CHOOSE x \in scores : \A y \in scores : y <= x
    IN  { [ num |-> s, den |-> n ] : s \in (n * lo)..(n * hi) }

\* BenchmarkReport.get_confidence_interval(): the (lower, upper) pairs the
\* percentiles of the resample means can give.
get_confidence_interval(report) ==
    { << l, u >> \in ResampleMeans(report.examples) \X ResampleMeans(report.examples)
        : l.num <= u.num }

\* The aggregation save asks of a report: mean and interval, or, for a report
\* without examples (which section 4.4 leaves to the caller to reject), either
\* an error or statistics that are not numbers.
NaN == [ num |-> 0, den |-> 0 ]

Aggregate(report) ==
    IF report.examples = << >>
      THEN { [ kind |-> "exception", exc |-> "ValueError" ],
             [ kind |-> "result", mean_score |-> NaN, lower |-> NaN, upper |-> NaN ] }
      ELSE { [ kind |-> "result", mean_score |-> get_mean_score(report),
               lower |-> ci[1], upper |-> ci[2] ]
             : ci \in get_confidence_interval(report) }

----------------------------------------------------------------------------
(* Executors *)

NoOutcome == [ kind |-> "none" ]

\* DummyExecutor.submit: runs fn at once and returns a finished future that
\* holds its result or the exception it raised.
DummySubmit(t, model, cfg) ==
    { [ task |-> t, model |-> model, cfg |-> cfg, state |-> "finished", outcome |-> o ]
      : o \in benchmark(t, model, cfg) }

\* ProcessPoolExecutor.submit: returns a pending future; a worker runs fn later.
ProcessSubmit(t, model, cfg) ==
    { [ task |-> t, model |-> model, cfg |-> cfg, state |-> "running",
        outcome |-> NoOutcome ] }

\* A submit that is given a handle loaded anew for its task instead of the
\* one handle of the run.
submit_reloaded(ex, t, model, cfg) ==
    LET own == [ org |-> model.org, ckpt |-> model.ckpt, loaded_for |-> t ]
    IN  IF ex = "DummyExecutor" THEN DummySubmit(t, own, cfg)
                                ELSE ProcessSubmit(t, own, cfg)

\* executor.submit(<task>.benchmark, backbone, <task>_args)
submit(ex, t, model, cfg) ==
    IF ex = "DummyExecutor" THEN DummySubmit(t, model, cfg)
                            ELSE ProcessSubmit(t, model, cfg)

\* A worker process of the pool runs a submitted job to its end.
JobRun(i) ==
    /\ pc \in { "dispatch", "collect" }
    /\ i \in 1..Len(jobs)
    /\ jobs[i].state = "running"
    /\ \E o \in benchmark(jobs[i].task, jobs[i].model, jobs[i].cfg) :
         jobs' = [ jobs EXCEPT ![i].state = "finished", ![i].outcome = o ]
    /\ UNCHANGED << pc, error, args, cuda_available, start_method, executor,
                    backbone, next_task, yielded, dirs, files, now, log >>
    /\ UNCHANGED << registry, reg_last >>

----------------------------------------------------------------------------
(* main *)

\* An exception leaves main.
Raise(exc) ==
    /\ pc' = "failed"
    /\ error' = exc

\* An executor selection that leaves the failure of the cluster backend to
\* its first submit.
SelectExecutorDeferred ==
    /\ pc = "main"
    /\ executor' = CASE args.jobs = "process" -> "ProcessPoolExecutor"
                      [] args.jobs = "slurm" -> "AutoExecutor"
                      [] args.jobs = "none" -> "DummyExecutor"
    /\ pc' = "load"
    /\ UNCHANGED << error, args, cuda_available, start_method, backbone,
                    next_task, jobs, yielded, dirs, files, now, log >>
    /\ UNCHANGED << registry, reg_last >>

\* Lines 132-141: the executor for args.jobs.
SelectExecutor ==
    /\ pc = "main"
    /\ IF args.jobs = "process"
         THEN /\ executor' = "ProcessPoolExecutor"
              /\ pc' = "load"
              /\ UNCHANGED error
         ELSE IF args.jobs = "slurm"
           THEN /\ Raise("NotImplementedError")
                /\ UNCHANGED executor
           ELSE /\ executor' = "DummyExecutor"
                /\ pc' = "load"
                /\ UNCHANGED error
    /\ UNCHANGED << args, cuda_available, start_method, backbone, next_task,
                    jobs, yielded, dirs, files, now, log >>
    /\ UNCHANGED << registry, reg_last >>

\* A load whose failure is swallowed: main goes on without a model.
LoadBackboneSwallowed ==
    /\ pc = "load"
    /\ \E r \in load_vision_backbone(args.model_org, args.model_ckpt) :
         backbone' = IF r.kind = "result" THEN r.value ELSE backbone
    /\ pc' = "dispatch"
    /\ UNCHANGED << error, args, cuda_available, start_method, executor,
                    next_task, jobs, yielded, dirs, files, now, log >>
    /\ UNCHANGED << registry, reg_last >>

\* Line 144: 1. Load model.
LoadBackbone ==
    /\ pc = "load"
    /\ \E r \in load_vision_backbone(args.model_org, args.model_ckpt) :
         IF r.kind = "result"
           THEN /\ backbone' = r.value
                /\ pc' = "dispatch"
                /\ UNCHANGED error
           ELSE /\ Raise(r.exc)
                /\ UNCHANGED backbone
    /\ UNCHANGED << args, cuda_available, start_method, executor, next_task,
                    jobs, yielded, dirs, files, now, log >>
    /\ UNCHANGED << registry, reg_last >>

\* Lines 148-159: one `if args.<task>_run` statement of 2. Run benchmarks.
Dispatch ==
    /\ pc = "dispatch"
    /\ next_task <= Len(TaskOrder)
    /\ LET t == TaskOrder[next_task]
       IN  IF args[RunFlag(t)]
             THEN \E fut \in submit(executor, t, backbone,
                                    replace_device(args[ArgsField(t)], args.device)) :
                    jobs' = Append(jobs, fut)
             ELSE UNCHANGED jobs
    /\ next_task' = next_task + 1
    /\ UNCHANGED << pc, error, args, cuda_available, start_method, executor,
                    backbone, yielded, dirs, files, now, log >>
    /\ UNCHANGED << registry, reg_last >>

\* A main that goes on to the collection loop without making the directory.
MakedirsSkipped ==
    /\ pc = "dispatch"
    /\ next_task > Len(TaskOrder)
    /\ pc' = "collect"
    /\ UNCHANGED << error, args, cuda_available, start_method, executor, backbone,
                    next_task, jobs, yielded, dirs, files, now, log >>
    /\ UNCHANGED << registry, reg_last >>

\* Line 162: os.makedirs(args.report_to, exist_ok=True)
Makedirs ==
    /\ pc = "dispatch"
    /\ next_task > Len(TaskOrder)
    /\ \E ok \in BOOLEAN :
         IF ok THEN /\ dirs' = dirs \cup { args.report_to }
                    /\ pc' = "collect"
                    /\ UNCHANGED error
               ELSE /\ Raise("OSError")
                    /\ UNCHANGED dirs
    /\ UNCHANGED << args, cuda_available, start_method, executor, backbone,
                    next_task, jobs, yielded, files, now, log >>
    /\ UNCHANGED << registry, reg_last >>

----------------------------------------------------------------------------
(* save *)

\* Args.report_path at clock reading t: the file is named after the time of
\* the call and lies in report_to of the module-level `args`.
report_path(t) == [ dir |-> args.report_to, posix |-> t ]

\* Lines 110-116: the record that is serialised, one JSON line.
report_dct(a, report, agg) ==
    [ name |-> report.name,
      examples |-> report.examples,
      splits |-> report.splits,
      run_args |-> a,
      mean_score |-> agg.mean_score,
      confidence_interval_lower |-> agg.lower,
      confidence_interval_upper |-> agg.upper ]

\* A file opened with mode "w" loses what it held.
truncating_write(lines, line) == << line >>

\* Lines 118-119: open(path, "a") and one write of the line.
append_line(lines, line) == Append(lines, line)

\* Lines 121-123: the line logged after the write.
SavedInfo(a, report) ==
    [ level |-> "INFO", model_ckpt |-> a.model_ckpt, name |-> report.name,
      mean_score |-> get_mean_score(report) ]

\* save(args, report), called from the collection loop: aggregate, read the
\* clock for the file name, open the file for appending, write one line, log.
\* An error of the aggregation, of open or of write leaves save and main.
save(a, report) ==
    \E agg \in Aggregate(report) :
      IF agg.kind = "exception"
        THEN /\ Raise(agg.exc)
             /\ UNCHANGED << files, now, log >>
        ELSE \E t \in Clock, io_ok \in BOOLEAN :
               /\ t >= now
               /\ now' = t
               /\ IF report_path(t).dir \notin dirs
                    THEN /\ Raise("FileNotFoundError")
                         /\ UNCHANGED << files, log >>
                    ELSE IF ~io_ok
                      THEN /\ Raise("OSError")
                           /\ UNCHANGED << files, log >>
                      ELSE /\ files' = [ files EXCEPT ![report_path(t)] =
                                           append_line(@, report_dct(a, report, agg)) ]
                           /\ log' = Append(log, SavedInfo(a, report))
                           /\ UNCHANGED << pc, error >>

----------------------------------------------------------------------------
(* 3. Display results: the collection loop *)

\* The futures as_completed can hand out next: it turns the list into a set
\* and yields each future once, finished ones first, in no particular order.
as_completed == { i \in 1..Len(jobs) : jobs[i].state = "finished" /\ i \notin yielded }

\* Lines 163-169: one turn of `for future in as_completed(jobs)`.
Collect ==
    /\ pc = "collect"
    /\ \E i \in as_completed :
         /\ yielded' = yielded \cup { i }
         /\ IF jobs[i].outcome.kind = "exception"
              THEN /\ log' = Append(log, [ level |-> "WARNING",
                                           msg |-> "Error running job",
                                           exc |-> jobs[i].outcome.exc ])
                   /\ UNCHANGED << pc, error, files, now >>
              ELSE save(args, jobs[i].outcome.report)
    /\ UNCHANGED << args, cuda_available, start_method, executor, backbone,
                    next_task, jobs, dirs >>
    /\ UNCHANGED << registry, reg_last >>

\* as_completed is exhausted: main returns.
Finish ==
    /\ pc = "collect"
    /\ yielded = 1..Len(jobs)
    /\ pc' = "done"
    /\ UNCHANGED << error, args, cuda_available, start_method, executor,
                    backbone, next_task, jobs, yielded, dirs, files, now, log >>
    /\ UNCHANGED << registry, reg_last >>

Next ==
    \/ CheckAccelerator
    \/ SelectExecutor
    \/ LoadBackbone
    \/ Dispatch
    \/ \E i \in 1..Len(TaskOrder) : JobRun(i)
    \/ Makedirs
    \/ Collect
    \/ Finish

Spec == Init /\ [][Next]_vars

----------------------------------------------------------------------------
(* The registry on its own: any sequence of register and load calls *)

InitRegistry ==
    /\ pc = "import"
    /\ error = "none"
    /\ args = DefaultArgs
    /\ cuda_available = TRUE
    /\ start_method = "unset"
    /\ executor = "none"
    /\ backbone = NoBackbone
    /\ next_task = 1
    /\ jobs = << >>
    /\ yielded = {}
    /\ dirs = {}
    /\ files = NoFiles
    /\ now = 0
    /\ log = << >>
    /\ registry = EmptyRegistry
    /\ reg_last = NoCall

LaunchUnchanged ==
    UNCHANGED << pc, error, args, cuda_available, start_method, executor,
                 backbone, next_task, jobs, yielded, dirs, files, now, log >>

\* A call register_vision_backbone(name, loader).
RegisterCall(name, loader) ==
    /\ pc = "import"
    /\ LET r == register_vision_backbone(registry, name, loader)
       IN  /\ registry' = r.table
           /\ reg_last' = [ op |-> "register", name |-> name, arg |-> loader,
                            result |-> r.result ]
    /\ LaunchUnchanged

\* A call load_vision_backbone(name, ckpt).
LoadCall(name, ckpt) ==
    /\ pc = "import"
    /\ \E o \in load_from(registry, name, ckpt) :
         reg_last' = [ op |-> "load", name |-> name, arg |-> ckpt,
                       result |-> IF o.kind = "result" THEN "ok" ELSE o.exc ]
    /\ UNCHANGED registry
    /\ LaunchUnchanged

NextRegistry ==
    \/ \E name \in BackboneNames, loader \in Loaders : RegisterCall(name, loader)
    \/ \E name \in BackboneNames : LoadCall(name, DefaultModelCkpt)

SpecRegistry == InitRegistry /\ [][NextRegistry]_vars

----------------------------------------------------------------------------
(* Vocabulary of the properties *)

\* Every line of every file, as (path, position).
Lines == UNION { { << p, k >> : k \in 1..Len(files[p]) } : p \in Paths }

\* How many persisted records carry the report name n.
SavedCount(n) == Cardinality({ l \in Lines : files[l[1]][l[2]].name = n })

\* How many times the failure exc of a job has been logged.
LoggedCount(exc) ==
    Cardinality({ k \in 1..Len(log) :
                    /\ log[k].level = "WARNING"
                    /\ log[k].msg = "Error running job"
                    /\ log[k].exc = exc })

\* The names of the reports saved with success, in the order of the saves.
SavedNames == SelectSeq(log, LAMBDA e : e.level = "INFO")

Returned(i) == jobs[i].state = "finished" /\ jobs[i].outcome.kind = "result"

Raised(i) == jobs[i].state = "finished" /\ jobs[i].outcome.kind = "exception"

JobIds == 1..Len(jobs)

\* The job returned a report that has examples.
ReturnedExamples(i) == Returned(i) /\ jobs[i].outcome.report.examples # << >>

\* No job has returned a report without examples.
NoEmptyReport == \A i \in JobIds : Returned(i) => ReturnedExamples(i)

\* The tasks the configuration enables.
EnabledTasks ==
    { t \in { "newt" } : args.newt_run } \cup
    { t \in { "kabr" } : args.kabr_run } \cup
    { t \in { "plantnet" } : args.plantnet_run } \cup
    { t \in { "iwildcam" } : args.iwildcam_run }

----------------------------------------------------------------------------
(* C1 *)

\* C1: under the synchronous and the multi-process backend, while main
\* collects and when it has finished collecting, every handle it has handled
\* so far left exactly one record if its job returned a report (and no logged
\* failure) and exactly one logged failure if its job raised (and no record);
\* a handle not yet handled left neither. At Done every handle has been
\* handled, so N jobs of which one raised give N-1 records and one failure.
C1_OneRecordPerReport ==
    pc \in { "collect", "done" } =>
      /\ pc = "done" => yielded = JobIds
      /\ \A i \in JobIds :
           LET n == ReportName(jobs[i].task)
               e == [ type |-> "TaskError", task |-> jobs[i].task ]
           IN  /\ (i \in yielded /\ Returned(i)) =>
                     SavedCount(n) = 1 /\ LoggedCount(e) = 0
               /\ (i \in yielded /\ Raised(i)) =>
                     SavedCount(n) = 0 /\ LoggedCount(e) = 1
               /\ i \notin yielded => SavedCount(n) = 0 /\ LoggedCount(e) = 0
      /\ Cardinality(Lines) = Cardinality({ i \in yielded : Returned(i) })

\* Four jobs through the process pool, exactly one of which raised: main is
\* done with three records and one logged failure.
C1_Witness ==
    /\ pc = "done"
    /\ executor = "ProcessPoolExecutor"
    /\ Len(jobs) = 4
    /\ Cardinality({ i \in JobIds : Raised(i) }) = 1
    /\ Cardinality(Lines) = 3

----------------------------------------------------------------------------
(* C2 *)

\* C2: a save that fails on open or write loses only its own record: of the
\* jobs that have returned a report with examples, at most the one whose save
\* failed is without a record when main has stopped.
C2_SaveFailureLosesOneRecord ==
    (pc = "failed" /\ error = "OSError" /\ dirs # {}) =>
      Cardinality({ i \in JobIds :
                      /\ ReturnedExamples(i)
                      /\ SavedCount(ReportName(jobs[i].task)) = 0 }) <= 1

----------------------------------------------------------------------------
(* C3 *)

\* C3: with the synchronous executor the collection loop handles the job
\* handles in the order of their submission: what has been handled is always
\* a prefix of the list of jobs.
C3_SubmissionOrder ==
    executor = "DummyExecutor" => \E k \in 0..Len(jobs) : yielded = 1..k

----------------------------------------------------------------------------
(* C4 *)

\* C4: all the saves of a run go to one file, whatever time passes between
\* them: at most one file has lines (stated for runs whose reports all have
\* examples).
C4_OneFilePerRun ==
    NoEmptyReport => Cardinality({ p \in Paths : files[p] # << >> }) <= 1

----------------------------------------------------------------------------
(* C5 *)

\* C5: a report without examples is a failed job: no persisted record has an
\* empty examples sequence, and main does not stop on such a report.
C5_EmptyReportIsFailure ==
    /\ \A l \in Lines : files[l[1]][l[2]].examples # << >>
    /\ ~(pc = "failed" /\ error = "ValueError")

----------------------------------------------------------------------------
(* C6 *)

\* C6: with jobs = "slurm" the backbone is never loaded, no job is ever
\* submitted, nothing is persisted, and main can only stop with
\* NotImplementedError.
C6_SlurmFailsFirst ==
    args.jobs = "slurm" =>
      /\ backbone = NoBackbone
      /\ jobs = << >>
      /\ Lines = {}
      /\ pc \in { "script", "main", "failed" }
      /\ pc = "failed" => error = "NotImplementedError"

C6_Witness ==
    args.jobs = "slurm" /\ pc = "failed" /\ error = "NotImplementedError"

----------------------------------------------------------------------------
(* C7 *)

BackboneErrors == { "UnknownBackboneError", "BackboneLoadError" }

\* C7: when backbone resolution fails the error leaves main and main stops
\* there, with no job submitted and no record saved; and no job is ever
\* submitted, nor a record saved, without a loaded backbone.
C7_BackboneFailureIsFatal ==
    /\ error \in BackboneErrors =>
         pc = "failed" /\ backbone = NoBackbone /\ jobs = << >> /\ Lines = {}
    /\ backbone = NoBackbone => jobs = << >> /\ Lines = {}
    /\ pc \in { "dispatch", "collect", "done" } => backbone # NoBackbone

C7_Witness ==
    /\ pc = "failed"
    /\ error = "BackboneLoadError"
    /\ EnabledTasks # {}
    /\ executor = "ProcessPoolExecutor"

----------------------------------------------------------------------------
(* C8 *)

\* C8: each `if` of the dispatch that has been passed submitted exactly one
\* job if its task's flag is true and none otherwise, and no job exists for a
\* task whose `if` is still ahead; once the dispatch is over the number of
\* jobs is the number of enabled tasks, and so is the number of handles
\* collected at Done.
C8_OneJobPerEnabledTask ==
    /\ \A k \in 1..Len(TaskOrder) :
         Cardinality({ i \in JobIds : jobs[i].task = TaskOrder[k] })
           = IF k < next_task /\ TaskOrder[k] \in EnabledTasks THEN 1 ELSE 0
    /\ next_task > Len(TaskOrder) => Len(jobs) = Cardinality(EnabledTasks)
    /\ pc = "done" => Cardinality(yielded) = Cardinality(EnabledTasks)

C8_Witness ==
    /\ pc = "done"
    /\ EnabledTasks = { "kabr", "iwildcam" }
    /\ Len(jobs) = 2

----------------------------------------------------------------------------
(* C9 *)

\* The fields of a nested task configuration.
TaskArgsFields == DOMAIN TaskArgs("newt")

\* C9: the configuration of every job has the fields of the run's nested
\* configuration of its task, agrees with it on every field but device, and
\* its device is the run's; and no step from the call of main on changes Args.
C9_ConfigCopied ==
    /\ [](\A i \in JobIds :
            LET nested == args[ArgsField(jobs[i].task)]
            IN  /\ DOMAIN jobs[i].cfg = DOMAIN nested
                /\ \A f \in DOMAIN nested \ { "device" } : jobs[i].cfg[f] = nested[f]
                /\ jobs[i].cfg.device = args.device)
    /\ [][pc # "script" => args' = args]_vars

\* C9 witness: a job whose configuration differs from the nested one of the run.
C9_Witness ==
    /\ pc = "done"
    /\ \E i \in JobIds : jobs[i].cfg # args[ArgsField(jobs[i].task)]
    /\ \E i \in JobIds : jobs[i].cfg = args[ArgsField(jobs[i].task)]

----------------------------------------------------------------------------
(* C10 *)

\* C10: the target file holds one line for each successful save, in the order
\* of the saves (stated for runs whose reports all have examples).
C10_OneLinePerSave ==
    NoEmptyReport =>
      \E p \in Paths :
        /\ Len(files[p]) = Len(SavedNames)
        /\ \A k \in 1..Len(SavedNames) : files[p][k].name = SavedNames[k].name

----------------------------------------------------------------------------
(* C11 *)

\* The failures the specification calls fatal: an unimplemented backend and
\* a failed backbone resolution.
FatalErrors == { "NotImplementedError" } \cup BackboneErrors

\* C11: an error raised by a task stays in the handle of its job, and main
\* stops with an error only on a fatal configuration or backbone-resolution
\* failure (stated for runs in which the report directory could be made and
\* every returned report has examples).
C11_MainFailsOnlyFatally ==
    (pc = "failed" /\ dirs # {} /\ NoEmptyReport) => error \in FatalErrors

----------------------------------------------------------------------------
(* C12 *)

----------------------------------------------------------------------------
(* C13 *)

\* C13: in every sequence of register and load calls, a register call with a
\* name that is registered ends with the duplicate-registration error and
\* leaves the table as it was, no call ever changes or removes the loader of
\* a registered name, and a load call with a name that is not registered ends
\* with the unknown-backbone error.
C13_RegistryErrors ==
    [][ /\ (reg_last'.op = "register" /\ reg_last'.name \in DOMAIN registry) =>
             /\ reg_last'.result = "DuplicateRegistrationError"
             /\ registry' = registry
        /\ \A n \in DOMAIN registry :
             n \in DOMAIN registry' /\ registry'[n] = registry[n]
        /\ (reg_last'.op = "load" /\ reg_last'.name \notin DOMAIN registry) =>
             reg_last'.result = "UnknownBackboneError" ]_vars

\* A name was registered again with another loader: the call failed and the
\* first loader is still in place, while some other name is not registered.
C13_Witness ==
    /\ reg_last.op = "register"
    /\ reg_last.result = "DuplicateRegistrationError"
    /\ registry[reg_last.name] # reg_last.arg
    /\ DOMAIN registry # BackboneNames

----------------------------------------------------------------------------
(* C15 *)

\* The positions of the control thread in the order main passes them:
\* Configuring (the script body and the executor selection),
\* ResolvingBackbone, Dispatching, Collecting, Done.
StateOrder == << "script", "main", "load", "dispatch", "collect", "done" >>

Pos(p) == CHOOSE k \in 1..Len(StateOrder) : StateOrder[k] = p

\* C15: every job holds the handle the one load of the run returned; the
\* handle is assigned once, in ResolvingBackbone, while no job exists; a job
\* is added only in Dispatching; and the control thread only ever moves to
\* the next state of the order (or stops with an error).
C15_BackboneLoadedOnce ==
    /\ [](\A i \in JobIds : jobs[i].model = backbone /\ backbone # NoBackbone)
    /\ [][backbone' # backbone =>
            (pc = "load" /\ backbone = NoBackbone /\ jobs = << >>)]_vars
    /\ [][Len(jobs') # Len(jobs) => (pc = "dispatch" /\ pc' = "dispatch")]_vars
    /\ [][pc' # pc => (pc' = "failed" \/ Pos(pc') = Pos(pc) + 1)]_vars

\* A run through the process pool that reached Done with several jobs.
C15_Witness ==
    /\ pc = "done"
    /\ executor = "ProcessPoolExecutor"
    /\ Len(jobs) >= 2
    /\ \A i \in JobIds : jobs[i].model = backbone

----------------------------------------------------------------------------
(* C16 *)

\* C16: the start method is set at most once, by the script body, while no
\* executor exists; an executor exists only after the accelerator check; and
\* after the check the configuration's device is "cuda" only on a host with
\* CUDA, so that no job is configured for "cuda" on a host without it.
C16_AcceleratorCheckedFirst ==
    /\ [][start_method' # start_method =>
            /\ pc = "script"
            /\ start_method = "unset"
            /\ executor = "none" /\ executor' = "none"]_vars
    /\ [](executor # "none" => pc # "script")
    /\ [](pc # "script" => (args.device = "cuda" => cuda_available))
    /\ [](\A i \in JobIds : jobs[i].cfg.device = "cuda" => cuda_available)

\* A run asked for "cuda" on a host without it: the start method is fork and
\* the jobs of the process pool were configured for "cpu".
C16_Witness ==
    /\ pc = "done"
    /\ ~cuda_available
    /\ start_method = "fork"
    /\ executor = "ProcessPoolExecutor"
    /\ jobs # << >>
    /\ \A i \in JobIds : jobs[i].cfg.device = "cpu"

----------------------------------------------------------------------------
(* C17 *)

\* C17: once the backbone is loaded, main does not stop before Done: when
\* no step is left to take, main is at Done and has handled every job handle
\* (stated for runs in which the report directory could be made and every
\* returned report has examples).
C17_StopsOnlyAtDone ==
    (backbone # NoBackbone /\ dirs # {} /\ NoEmptyReport /\ ~ENABLED Next) =>
      (pc = "done" /\ yielded = JobIds)

----------------------------------------------------------------------------
(* C18 *)

\* The keys load_reports reads from every record of a report file.
load_reports_keys == { "report_examples", "report_model_ckpt" }

\* The columns plot_task reads from the loaded reports.
plot_task_keys ==
    { "report_name", "report_mean_score", "report_confidence_interval_lower",
      "report_confidence_interval_upper" }

\* C18: every key the analysis loader reads is a key of every record save
\* has written.
C18_RecordsLoadable ==
    \A l \in Lines :
      (load_reports_keys \cup plot_task_keys) \subseteq DOMAIN files[l[1]][l[2]]

----------------------------------------------------------------------------
(* C19 *)

\* C19: a run whose model_org is the default of Args does not stop with the
\* unknown-backbone error.
C19_DefaultOrgRegistered ==
    args.model_org = DefaultModelOrg => error # "UnknownBackboneError"

====
